---- MODULE Spec2Model ----
(***************************************************************************)
(* Model of the brand-kit form (BrandForm): the colour codec (hexToRgb,    *)
(* rgbToHex, rgbToCmyk, cmykToRgb, hexToCmyk, cmykToHex), the editing      *)
(* handlers that maintain the form document and the uploadedFiles store,   *)
(* and onSubmit, which lays the uploaded files out in a ZIP archive,       *)
(* rewrites the document's src paths and offers the archive for download.  *)
(*                                                                         *)
(* A JavaScript string is modelled as a sequence of one-character strings, *)
(* so that splitting, trimming, parsing and formatting are computed.       *)
(***************************************************************************)
EXTENDS Integers, Sequences, FiniteSets, TLC

VARIABLES
  form,          \* the values react-hook-form holds (BrandData)
  uploadedFiles, \* useState<UploadedFiles>: logos, gallery, fonts keyed by index
  runs,          \* one record per invocation of onSubmit, in order of invocation
  scope,         \* the collection this behaviour lets grow (fixed at the start)
  lateEdits,     \* editing steps taken since handleSubmit first ran
  errors,        \* formState.errors: the field paths the last handleSubmit rejected
  codecOrig,     \* the string a chain of conversions started from
  codecValue,    \* the current string of the chain
  codecFormat,   \* the format the current string is meant to have
  codecTrace     \* the codec functions applied so far, in order

formVars == <<form, uploadedFiles, runs, scope, lateEdits, errors>>

codecVars == <<codecOrig, codecValue, codecFormat, codecTrace>>

vars == <<form, uploadedFiles, runs, scope, lateEdits, errors,
          codecOrig, codecValue, codecFormat, codecTrace>>

(***************************************************************************)
(* Strings                                                                 *)
(***************************************************************************)

\* The empty string ''.
Empty == <<>>

\* Number.NaN, the result of a parseInt that finds no digit.
NaN == 1073741824

isNaN(n) == n = NaN

\* White space as String.prototype.trim, parseInt and the regex class \s see it.
IsSpace(c) == c \in {" ", "\t", "\n", "\r"}

\* The value of a character as a digit, 99 when it is no digit of any radix.
DigitVal(c) ==
  CASE c = "0" -> 0 [] c = "1" -> 1 [] c = "2" -> 2 [] c = "3" -> 3
    [] c = "4" -> 4 [] c = "5" -> 5 [] c = "6" -> 6 [] c = "7" -> 7
    [] c = "8" -> 8 [] c = "9" -> 9
    [] c \in {"a", "A"} -> 10 [] c \in {"b", "B"} -> 11
    [] c \in {"c", "C"} -> 12 [] c \in {"d", "D"} -> 13
    [] c \in {"e", "E"} -> 14 [] c \in {"f", "F"} -> 15
    [] OTHER -> 99

\* The digits Number.prototype.toString writes (lower case).
DigitChar(d) ==
  <<"0", "1", "2", "3", "4", "5", "6", "7", "8", "9",
    "a", "b", "c", "d", "e", "f">>[d + 1]

\* s.substring(from, to): the characters at 0-based positions from .. to-1.
substring(s, from, to) ==
  LET hi == IF to > Len(s) THEN Len(s) ELSE to
      lo == IF from > hi THEN hi ELSE from
  IN  SubSeq(s, lo + 1, hi)

\* Position (1-based) of the first occurrence of character c in s, 0 if none.
RECURSIVE IndexFrom(_, _, _)
IndexFrom(s, c, i) ==
  IF i > Len(s) THEN 0
  ELSE IF s[i] = c THEN i
  ELSE IndexFrom(s, c, i + 1)

\* s.replace(c, ''): s without the first occurrence of the character c.
replaceFirst(s, c) ==
  LET i == IndexFrom(s, c, 1)
  IN  IF i = 0 THEN s ELSE SubSeq(s, 1, i - 1) \o SubSeq(s, i + 1, Len(s))

\* s.split(c): the pieces of s between the occurrences of the character c.
RECURSIVE split(_, _)
split(s, c) ==
  LET i == IndexFrom(s, c, 1)
  IN  IF i = 0 THEN <<s>>
      ELSE <<SubSeq(s, 1, i - 1)>> \o split(SubSeq(s, i + 1, Len(s)), c)

RECURSIVE TrimStart(_)
TrimStart(s) ==
  IF s # <<>> /\ IsSpace(Head(s)) THEN TrimStart(Tail(s)) ELSE s

RECURSIVE TrimEnd(_)
TrimEnd(s) ==
  IF s # <<>> /\ IsSpace(s[Len(s)]) THEN TrimEnd(SubSeq(s, 1, Len(s) - 1)) ELSE s

\* s.trim()
trim(s) == TrimEnd(TrimStart(s))

\* The value of the longest prefix of s made of digits of the radix, as
\* <<value, number of digits read>>.
RECURSIVE DigitsPrefix(_, _, _, _)
DigitsPrefix(s, radix, acc, n) ==
  IF s # <<>> /\ DigitVal(Head(s)) < radix
  THEN DigitsPrefix(Tail(s), radix, acc * radix + DigitVal(Head(s)), n + 1)
  ELSE <<acc, n>>

\* parseInt(s, radix); radix 0 stands for the one-argument call parseInt(s).
\* Leading white space is skipped, a sign is read, a 0x/0X prefix selects (or is
\* allowed by) radix 16, then the longest run of digits is read; NaN if none.
parseInt(s, radix) ==
  LET t    == TrimStart(s)
      neg  == t # <<>> /\ Head(t) = "-"
      u    == IF t # <<>> /\ Head(t) \in {"-", "+"} THEN Tail(t) ELSE t
      pre  == Len(u) >= 2 /\ u[1] = "0" /\ u[2] \in {"x", "X"} /\ radix \in {0, 16}
      body == IF pre THEN Tail(Tail(u)) ELSE u
      rdx  == IF radix = 0 THEN (IF pre THEN 16 ELSE 10) ELSE radix
      p    == DigitsPrefix(body, rdx, 0, 0)
  IN  IF p[2] = 0 THEN NaN ELSE IF neg THEN 0 - p[1] ELSE p[1]

\* The digits of n >= 0 in the radix, without leading zeros.
RECURSIVE Digits(_, _)
Digits(n, radix) ==
  IF n < radix THEN <<DigitChar(n)>>
  ELSE Digits(n \div radix, radix) \o <<DigitChar(n % radix)>>

\* n.toString(radix), also what a template literal `${n}` writes for radix 10.
toString(n, radix) ==
  IF isNaN(n) THEN <<"N", "a", "N">>
  ELSE IF n < 0 THEN <<"-">> \o Digits(0 - n, radix)
  ELSE Digits(n, radix)

\* The separator ", " of the template literals.
CommaSpace == <<",", " ">>

\* parts.join(', ') of numbers written in decimal: `${a}, ${b}, ${c}`.
RECURSIVE JoinDecimal(_)
JoinDecimal(ns) ==
  IF Len(ns) = 0 THEN <<>>
  ELSE IF Len(ns) = 1 THEN toString(ns[1], 10)
  ELSE toString(ns[1], 10) \o CommaSpace \o JoinDecimal(Tail(ns))

\* s.split(',').map(v => parseInt(v.trim()))
ParseParts(s) ==
  LET ps == split(s, ",")
  IN  [i \in 1..Len(ps) |-> parseInt(trim(ps[i]), 0)]

(***************************************************************************)
(* Numbers: Math.round over the doubles the codec computes                 *)
(***************************************************************************)

\* floor(a / b) for b # 0.
FloorDiv(a, b) == IF b > 0 THEN a \div b ELSE (0 - a) \div (0 - b)

\* Math.round(a / b) on the exact quotient: the nearest integer, a tie going up.
RoundDiv(a, b) == FloorDiv(2 * a + b, 2 * b)

\* The byte pairs <<x, max>> at which the exact value of
\* ((1 - x/255 - k) / (1 - k)) * 100, k = 1 - max/255, is a tie that the double
\* computation places just below the half, so that Math.round goes down.
CmykTiesBelowHalf ==
  {  <<5, 8>>, <<7, 8>>, <<6, 16>>, <<14, 16>>, <<15, 24>>, <<21, 24>>, <<12, 32>>,
     <<28, 32>>, <<5, 40>>, <<13, 40>>, <<15, 40>>, <<21, 40>>, <<23, 40>>, <<29, 40>>,
     <<31, 40>>, <<37, 40>>, <<39, 40>>, <<6, 48>>, <<30, 48>>, <<7, 56>>, <<21, 56>>,
     <<45, 72>>, <<63, 72>>, <<22, 80>>, <<30, 80>>, <<38, 80>>, <<46, 80>>, <<54, 80>>,
     <<62, 80>>, <<70, 80>>, <<74, 80>>, <<78, 80>>, <<55, 88>>, <<77, 88>>, <<12, 96>>,
     <<60, 96>>, <<13, 104>>, <<91, 104>>, <<14, 112>>, <<70, 112>>, <<45, 120>>,
     <<75, 120>>, <<87, 120>>, <<93, 120>>, <<111, 120>>, <<119, 136>>, <<90, 144>>,
     <<126, 144>>, <<133, 152>>, <<44, 160>>, <<60, 160>>, <<76, 160>>, <<92, 160>>,
     <<108, 160>>, <<124, 160>>, <<132, 160>>, <<140, 160>>, <<148, 160>>, <<156, 160>>,
     <<21, 168>>, <<110, 176>>, <<21, 200>>, <<43, 200>>, <<45, 200>>, <<75, 200>>,
     <<87, 200>>, <<91, 200>>, <<93, 200>>, <<107, 200>>, <<109, 200>>, <<123, 200>>,
     <<125, 200>>, <<135, 200>>, <<141, 200>>, <<143, 200>>, <<149, 200>>, <<157, 200>>,
     <<165, 200>>, <<167, 200>>, <<173, 200>>, <<175, 200>>, <<181, 200>>, <<183, 200>>,
     <<189, 200>>, <<191, 200>>, <<197, 200>>, <<199, 200>>, <<182, 208>>, <<189, 216>>,
     <<28, 224>>, <<140, 224>>, <<196, 224>>, <<90, 240>>, <<102, 240>>, <<150, 240>>,
     <<174, 240>>, <<198, 240>>, <<222, 240>>  }

\* The percentage pairs <<c, k>> at which the exact value of
\* 255 * (1 - c/100) * (1 - k/100) is a tie that the double computation places
\* just below the half (1 - 0.9 and 1 - 0.8 are not exact in binary).
RgbTiesBelowHalf == { <<0, 90>>, <<50, 80>>, <<80, 50>>, <<90, 0>> }

(***************************************************************************)
(* Colour codec                                                            *)
(***************************************************************************)

hexToRgb(hex) ==
  LET cleaned == replaceFirst(hex, "#")
  IN  IF Len(cleaned) # 6 THEN Empty
      ELSE LET r == parseInt(substring(cleaned, 0, 2), 16)
               g == parseInt(substring(cleaned, 2, 4), 16)
               b == parseInt(substring(cleaned, 4, 6), 16)
           IN  JoinDecimal(<<r, g, b>>)

\* One component of rgbToHex: x.toString(16), padded to two digits when it has one.
\* HexByte without the padding to two digits.
HexByteUnpadded(x) == toString(x, 16)

HexByte(x) ==
  LET hex == toString(x, 16)
  IN  IF Len(hex) = 1 THEN <<"0">> \o hex ELSE hex

rgbToHex(rgb) ==
  LET parts == ParseParts(rgb)
  IN  IF Len(parts) # 3 \/ (\E i \in 1..Len(parts) : isNaN(parts[i])) THEN Empty
      ELSE <<"#">> \o HexByte(parts[1]) \o HexByte(parts[2]) \o HexByte(parts[3])

Max3(a, b, c) ==
  LET ab == IF a >= b THEN a ELSE b
  IN  IF ab >= c THEN ab ELSE c

\* Math.round(((1 - x/255 - k) / (1 - k)) * 100) with k = 1 - mx/255, mx # 0:
\* the exact value is 100 * (mx - x) / mx.
CmykComponent(x, mx) ==
  IF <<x, mx>> \in CmykTiesBelowHalf
  THEN RoundDiv(100 * (mx - x), mx) - 1
  ELSE RoundDiv(100 * (mx - x), mx)

rgbToCmyk(rgb) ==
  LET parts == ParseParts(rgb)
  IN  IF Len(parts) # 3 \/ (\E i \in 1..Len(parts) : isNaN(parts[i])) THEN Empty
      ELSE LET mx == Max3(parts[1], parts[2], parts[3])
           IN  IF mx = 0 THEN <<"0", ",", " ", "0", ",", " ", "0", ",", " ", "1", "0", "0">>
               ELSE JoinDecimal(<<CmykComponent(parts[1], mx),
                                  CmykComponent(parts[2], mx),
                                  CmykComponent(parts[3], mx),
                                  RoundDiv(100 * (255 - mx), 255)>>)

hexToCmyk(hex) ==
  LET rgb == hexToRgb(hex)
  IN  IF rgb = Empty THEN Empty
      ELSE LET p == ParseParts(rgb)
           IN  rgbToCmyk(JoinDecimal(<<p[1], p[2], p[3]>>))

\* Math.round(255 * (1 - c/100) * (1 - k/100)): the exact value is
\* 255 * (100 - c) * (100 - k) / 10000.
\* RgbComponent without the factor of the key (black) component.
RgbComponentNoKey(c, k) == RoundDiv(255 * (100 - c), 100)

RgbComponent(c, k) ==
  IF <<c, k>> \in RgbTiesBelowHalf
  THEN RoundDiv(255 * (100 - c) * (100 - k), 10000) - 1
  ELSE RoundDiv(255 * (100 - c) * (100 - k), 10000)

cmykToRgb(cmyk) ==
  LET parts == ParseParts(cmyk)
  IN  IF Len(parts) # 4 \/ (\E i \in 1..Len(parts) : isNaN(parts[i])) THEN Empty
      ELSE JoinDecimal(<<RgbComponent(parts[1], parts[4]),
                         RgbComponent(parts[2], parts[4]),
                         RgbComponent(parts[3], parts[4])>>)

cmykToHex(cmyk) ==
  LET rgb == cmykToRgb(cmyk)
  IN  IF rgb = Empty THEN Empty ELSE rgbToHex(rgb)

(***************************************************************************)
(* More strings: case, slugs, extensions                                   *)
(***************************************************************************)

LowerLetters ==
  <<"a", "b", "c", "d", "e", "f", "g", "h", "i", "j", "k", "l", "m",
    "n", "o", "p", "q", "r", "s", "t", "u", "v", "w", "x", "y", "z">>

UpperLetters ==
  <<"A", "B", "C", "D", "E", "F", "G", "H", "I", "J", "K", "L", "M",
    "N", "O", "P", "Q", "R", "S", "T", "U", "V", "W", "X", "Y", "Z">>

\* The lower-case letter of each upper-case letter, and the reverse.
LowerOf == [c \in {UpperLetters[i] : i \in 1..Len(UpperLetters)} |->
              LowerLetters[IndexFrom(UpperLetters, c, 1)]]

UpperOf == [c \in {LowerLetters[i] : i \in 1..Len(UpperLetters)} |->
              UpperLetters[IndexFrom(LowerLetters, c, 1)]]

toLowerCase(s) ==
  [i \in 1..Len(s) |-> IF s[i] \in DOMAIN LowerOf THEN LowerOf[s[i]] ELSE s[i]]

toUpperCase(s) ==
  [i \in 1..Len(s) |-> IF s[i] \in DOMAIN UpperOf THEN UpperOf[s[i]] ELSE s[i]]

\* s.replace(/\s+/g, "-"): every run of white space becomes one hyphen.
RECURSIVE replaceSpaceRuns(_)
replaceSpaceRuns(s) ==
  IF s = <<>> THEN <<>>
  ELSE IF IsSpace(Head(s))
       THEN <<"-">> \o replaceSpaceRuns(TrimStart(s))
       ELSE <<Head(s)>> \o replaceSpaceRuns(Tail(s))

\* name.toLowerCase().replace(/\s+/g, "-")
slugify(name) == replaceSpaceRuns(toLowerCase(name))

\* name.split(".").pop(): what follows the last dot, the whole name if it has none.
extension(name) ==
  LET ps == split(name, ".")
  IN  ps[Len(ps)]

\* s.startsWith(prefix)
startsWith(s, prefix) ==
  Len(s) >= Len(prefix) /\ SubSeq(s, 1, Len(prefix)) = prefix

\* s ends with suffix.
endsWith(s, suffix) ==
  Len(s) >= Len(suffix) /\ SubSeq(s, Len(s) - Len(suffix) + 1, Len(s)) = suffix

(***************************************************************************)
(* Files the user can pick or drop                                         *)
(***************************************************************************)

\* A File: its name, its MIME type, and id standing for its binary content.
RawPng ==
  [id   |-> "raw",
   name |-> <<"r", "a", "w", ".", "p", "n", "g">>,
   type |-> <<"i", "m", "a", "g", "e", "/", "p", "n", "g">>]

InterWoff ==
  [id   |-> "inter",
   name |-> <<"i", "n", "t", "e", "r", ".", "w", "o", "f", "f">>,
   type |-> <<"f", "o", "n", "t", "/", "w", "o", "f", "f">>]

Files == {RawPng, InterWoff}

\* What reading an array hole, a missing key or a missing index gives.
undefined == [id |-> "undefined", name |-> <<>>, type |-> <<>>]

\* file.type.startsWith('image/')
IsImage(file) == startsWith(file.type, <<"i", "m", "a", "g", "e", "/">>)

\* file.name.match(/\.(woff|woff2|ttf|otf)$/i)
IsFontName(file) ==
  \E suffix \in {<<".", "w", "o", "f", "f">>, <<".", "w", "o", "f", "f", "2">>,
                  <<".", "t", "t", "f">>, <<".", "o", "t", "f">>} :
     endsWith(toLowerCase(file.name), suffix)

\* The folders of the archive, and the '/' the rewritten paths start with.
LogosDir == <<"a", "s", "s", "e", "t", "s", "/", "l", "o", "g", "o", "s", "/">>

GalleryDir == <<"a", "s", "s", "e", "t", "s", "/", "g", "a", "l", "l", "e", "r", "y", "/">>

FontsDir == <<"a", "s", "s", "e", "t", "s", "/", "f", "o", "n", "t", "s", "/">>

Slash == <<"/">>

\* The names the user types into the name fields.
Acme == <<"A", "c", "m", "e">>

AcmeLower == <<"a", "c", "m", "e">>

MyKit == <<"M", "y", " ", " ", "K", "i", "t">>

LogoNames == {Acme, AcmeLower}

FontNames == {Acme}

BrandNames == {MyKit}

(***************************************************************************)
(* The form document and the uploadedFiles store                           *)
(***************************************************************************)

\* Most logos, variants of a logo, fonts and gallery items the model lets the
\* form hold. One behaviour grows one of the four collections to its bound and
\* keeps the others at their initial size (one logo, one variant, one font) or,
\* for the gallery, empty; typing and export are free in every scope, and the
\* uploads are made where their collection or the gallery is edited.
\* A behaviour of scope "await" lets every collection grow, and takes its few
\* editing steps after onSubmit has been invoked.
MaxLogos == 2

MaxVariants == 3

MaxFonts == 2

MaxGallery == 2

MaxColors == 2

MaxExamples == 2

Scopes == {"logos", "variants", "fonts", "gallery", "colors", "examples"}

ColorLimit == IF scope \in {"colors", "await"} THEN MaxColors ELSE 1

ExampleLimit == IF scope \in {"examples", "await"} THEN MaxExamples ELSE 1

LogoLimit == IF scope \in {"logos", "await"} THEN MaxLogos ELSE 1

VariantLimit == IF scope \in {"variants", "await"} THEN MaxVariants ELSE 1

FontLimit == IF scope \in {"fonts", "await"} THEN MaxFonts ELSE 1

GalleryLimit == IF scope \in {"gallery", "await"} THEN MaxGallery ELSE 0

\* The behaviours that upload logo files, and those that upload font files.
LogoUploadScopes == {"logos", "variants", "gallery", "await"}

FontUploadScopes == {"fonts", "gallery", "await"}

\* The second logo name is typed where the logos are edited.
NamedNow(n) == n = Acme \/ scope \in {"logos", "await"}

\* Most files one pick or drop of a multiple-file input carries.
MaxPick == 2

\* A pick or drop of several files at once is made where the fonts or the
\* gallery are edited and in a behaviour of scope "await"; elsewhere it carries
\* one file.
PickLimit == IF scope \in {"fonts", "gallery", "await"} THEN MaxPick ELSE 1

\* Most invocations of onSubmit in one behaviour.
MaxExports == 2

\* onSubmit is invoked a second time where the fonts or the gallery are edited
\* and in a behaviour of scope "await"; elsewhere once.
ExportLimit == IF scope \in {"fonts", "gallery", "await"} THEN MaxExports ELSE 1

\* Most editing steps in one behaviour after onSubmit has first been invoked.
MaxLateEdits == 0

\* Most editing steps in a behaviour of scope "await", all of them taken after
\* onSubmit has been invoked.
MaxAwaitEdits == 2

\* Element i (0-based, as in the source) of an array.
At(arr, i) == arr[i + 1]

\* The array with element i (0-based) replaced.
WithAt(arr, i, x) == [arr EXCEPT ![i + 1] = x]

\* arr.filter((_, i) => i !== index) on an array without holes.
RemoveAt(arr, index) ==
  SubSeq(arr, 1, index) \o SubSeq(arr, index + 2, Len(arr))

\* The keys of an object whose keys are array indices.
Keys(obj) == DOMAIN obj

\* { ...obj, [key]: value }
With(obj, key, value) ==
  [k \in Keys(obj) \cup {key} |-> IF k = key THEN value ELSE obj[k]]

\* delete obj[key]
Without(obj, key) == [k \in Keys(obj) \ {key} |-> obj[k]]

\* obj[key], undefined-safe: the empty array when the key is missing.
FilesAt(obj, key) == IF key \in Keys(obj) THEN obj[key] ELSE <<>>

\* arr[index] = file on a JavaScript array: an index beyond the end leaves holes.
RECURSIVE Holes(_)
Holes(n) == IF n <= 0 THEN <<>> ELSE <<undefined>> \o Holes(n - 1)

AssignAt(arr, index, file) ==
  IF index < Len(arr) THEN WithAt(arr, index, file)
  ELSE arr \o Holes(index - Len(arr)) \o <<file>>

\* arr.filter((_, i) => i !== index) on an array that may have holes: filter
\* does not visit holes, so the result keeps only the files, packed.
RECURSIVE FilterOut(_, _, _)
FilterOut(arr, index, i) ==
  IF i >= Len(arr) THEN <<>>
  ELSE IF i = index \/ At(arr, i) = undefined THEN FilterOut(arr, index, i + 1)
  ELSE <<At(arr, i)>> \o FilterOut(arr, index, i + 1)

\* A logo variant as appended by the form. up is a history field: the file the
\* user uploaded for this very variant (undefined if none); the program never
\* reads it.
NewVariant == [label |-> Empty, src |-> Empty, up |-> undefined]

NewLogo == [name |-> Empty, description |-> Empty, variants |-> <<NewVariant>>]

NewColor ==
  [name   |-> Empty,
   role   |-> <<"Primary">>,
   values |-> [hex |-> Empty, rgb |-> Empty, cmyk |-> Empty]]

NewFont ==
  [name   |-> Empty,
   source |-> [type |-> "google", family |-> Empty, weights |-> <<400>>]]

NewExample ==
  [label |-> Empty, font |-> Empty, sizePx |-> 16, weight |-> 400, text |-> Empty]

\* new Date().toISOString().split("T")[0] on the day the form is opened.
Today == <<"2", "0", "2", "6", "-", "1", "1", "-", "0", "1">>

defaultValues ==
  [brand      |-> [name        |-> Empty,
                   description |-> Empty,
                   website     |-> Empty,
                   updatedAt   |-> Today],
   logos      |-> <<NewLogo>>,
   colors     |-> <<NewColor>>,
   typography |-> [fonts |-> <<NewFont>>, examples |-> <<NewExample>>],
   gallery    |-> <<>>]

NoFiles == [logos |-> <<>>, gallery |-> <<>>, fonts |-> <<>>]

\* The file lists a multiple-file input can deliver: 1..MaxPick distinct files.
RECURSIVE FileListsOf(_)
FileListsOf(n) ==
  IF n = 0 THEN {<<>>}
  ELSE {Append(fs, f) : fs \in FileListsOf(n - 1), f \in Files}

Distinct(fs) == \A i, j \in 1..Len(fs) : i # j => fs[i] # fs[j]

FileLists ==
  {fs \in UNION {FileListsOf(n) : n \in 1..MaxPick} : Distinct(fs)}

\* What every handler of the editing surface shares in this model: it is one
\* more editing step, and it leaves the invocations of onSubmit alone.
TypeStep ==
  /\ IF scope = "await"
     THEN runs # <<>> /\ lateEdits < MaxAwaitEdits
     ELSE (runs = <<>> /\ errors = {}) \/ lateEdits < MaxLateEdits
  /\ lateEdits' = IF runs = <<>> /\ errors = {} THEN 0 ELSE lateEdits + 1
  /\ UNCHANGED <<runs, scope, errors, codecVars>>

\* The order of editing the behaviours follow: the brand's fields, the plain
\* texts and the values of the first colour are entered before the other names,
\* the lists and the uploads are touched, and a behaviour of scope "colors"
\* edits the colours only.
Unlocked ==
  /\ scope # "colors"
  /\ form.brand.name # Empty
  /\ form.brand.description # Empty
  /\ At(form.colors, 0).values.cmyk # Empty

EditStep == Unlocked /\ TypeStep

\* ---- typed fields ----

SetBrandName(n) ==
  /\ TypeStep
  /\ form' = [form EXCEPT !.brand.name = n]
  /\ UNCHANGED uploadedFiles

SetLogoName(logoIndex, n) ==
  /\ EditStep
  /\ NamedNow(n)
  /\ logoIndex < Len(form.logos)
  /\ form' = [form EXCEPT !.logos[logoIndex + 1].name = n]
  /\ UNCHANGED uploadedFiles

SetFontName(fontIndex, n) ==
  /\ EditStep
  /\ fontIndex < Len(form.typography.fonts)
  /\ form' = [form EXCEPT !.typography.fonts[fontIndex + 1].name = n]
  /\ UNCHANGED uploadedFiles

\* The text typed into the plain text inputs of the sample documents.
Words == <<"t", "e", "x", "t">>

Site == <<"h", "t", "t", "p", "s", ":", "/", "/", "a", ".", "c", "o">>

Filled(value, typed) == IF value = Empty THEN typed ELSE value

\* field.onChange of the text inputs no other action models (the descriptions,
\* brand.website, the colour names, the font families and the texts of the
\* examples): every one of them that is still empty is typed into.
FillDetails ==
  /\ TypeStep
  /\ form' =
       [form EXCEPT
          !.brand.description = Filled(@, Words),
          !.brand.website = Filled(@, Site),
          !.logos = [l \in 1..Len(form.logos) |->
             [form.logos[l] EXCEPT !.description = Filled(@, Words)]],
          !.colors = [c \in 1..Len(form.colors) |->
             [form.colors[c] EXCEPT !.name = Filled(@, Words)]],
          !.typography.fonts = [f \in 1..Len(form.typography.fonts) |->
             [form.typography.fonts[f] EXCEPT !.source.family = Filled(@, Words)]],
          !.typography.examples = [e \in 1..Len(form.typography.examples) |->
             [form.typography.examples[e] EXCEPT
                !.label = Filled(@, Words),
                !.font  = Filled(@, Words),
                !.text  = Filled(@, Words)]]]
  /\ form' # form
  /\ UNCHANGED uploadedFiles

\* ---- colours ----

SampleHex == <<"#", "0", "0", "4", "0", "4", "1">>

Black == <<"#", "0", "0", "0", "0", "0", "0">>

BadHex == <<"#", "Z", "Z", "Z", "Z", "Z", "Z">>

ShortRgb == <<"1", ",", " ", "2">>

\* "300, 0, 0": three groups of one to three digits, the first above 255.
WideRgb == <<"3", "0", "0", ",", " ", "0", ",", " ", "0">>

ShortCmyk == <<"0", ",", " ", "0", ",", " ", "0">>

\* The texts typed into the hex, rgb and cmyk inputs.
HexTexts == {SampleHex, BadHex, Black}

RgbTexts == {ShortRgb, WideRgb}

CmykTexts == {ShortCmyk}

\* Colour texts are varied while the colours are edited, the out-of-range rgb
\* text being typed in a behaviour of scope "await" only; elsewhere the first
\* colour gets one valid value.
TypedNow(text) ==
  IF scope = "await" THEN text # Black
  ELSE IF scope = "colors" THEN text \notin {Black, WideRgb}
  ELSE text = Black

SetHex(colorIndex, text) ==
  /\ TypeStep
  /\ TypedNow(text)
  /\ colorIndex < Len(form.colors)
  /\ form' = [form EXCEPT !.colors[colorIndex + 1].values.hex = text]
  /\ UNCHANGED uploadedFiles

SetRgb(colorIndex, text) ==
  /\ TypeStep
  /\ TypedNow(text)
  /\ colorIndex < Len(form.colors)
  /\ form' = [form EXCEPT !.colors[colorIndex + 1].values.rgb = text]
  /\ UNCHANGED uploadedFiles

SetCmyk(colorIndex, text) ==
  /\ TypeStep
  /\ TypedNow(text)
  /\ colorIndex < Len(form.colors)
  /\ form' = [form EXCEPT !.colors[colorIndex + 1].values.cmyk = text]
  /\ UNCHANGED uploadedFiles

\* if (result) form.setValue(path, result): an empty result is not applied.
SetIfTruthy(previous, result) == IF result # Empty THEN result ELSE previous

\* Convert next to the hex input (lines 650-658).
ConvertHex(colorIndex) ==
  /\ TypeStep
  /\ colorIndex < Len(form.colors)
  /\ LET hex == At(form.colors, colorIndex).values.hex
     IN  form' =
           IF hex = Empty THEN form
           ELSE [form EXCEPT
                   !.colors[colorIndex + 1].values.rgb = SetIfTruthy(@, hexToRgb(hex)),
                   !.colors[colorIndex + 1].values.cmyk = SetIfTruthy(@, hexToCmyk(hex))]
  /\ UNCHANGED uploadedFiles

\* Convert next to the rgb input (lines 683-691).
ConvertRgb(colorIndex) ==
  /\ TypeStep
  /\ colorIndex < Len(form.colors)
  /\ LET rgb == At(form.colors, colorIndex).values.rgb
     IN  form' =
           IF rgb = Empty THEN form
           ELSE [form EXCEPT
                   !.colors[colorIndex + 1].values.hex = SetIfTruthy(@, rgbToHex(rgb)),
                   !.colors[colorIndex + 1].values.cmyk = SetIfTruthy(@, rgbToCmyk(rgb))]
  /\ UNCHANGED uploadedFiles

\* Convert next to the cmyk input (lines 716-724).
ConvertCmyk(colorIndex) ==
  /\ TypeStep
  /\ colorIndex < Len(form.colors)
  /\ LET cmyk == At(form.colors, colorIndex).values.cmyk
     IN  form' =
           IF cmyk = Empty THEN form
           ELSE [form EXCEPT
                   !.colors[colorIndex + 1].values.rgb = SetIfTruthy(@, cmykToRgb(cmyk)),
                   !.colors[colorIndex + 1].values.hex = SetIfTruthy(@, cmykToHex(cmyk))]
  /\ UNCHANGED uploadedFiles

AppendColor ==
  /\ TypeStep
  /\ Len(form.colors) < ColorLimit
  /\ form' = [form EXCEPT !.colors = Append(@, NewColor)]
  /\ UNCHANGED uploadedFiles

\* The button is rendered only while colorFields.length > 1.
RemoveColor(colorIndex) ==
  /\ TypeStep
  /\ Len(form.colors) > 1
  /\ colorIndex < Len(form.colors)
  /\ form' = [form EXCEPT !.colors = RemoveAt(@, colorIndex)]
  /\ UNCHANGED uploadedFiles

\* ---- typography examples ----

AppendExample ==
  /\ EditStep
  /\ Len(form.typography.examples) < ExampleLimit
  /\ form' = [form EXCEPT !.typography.examples = Append(@, NewExample)]
  /\ UNCHANGED uploadedFiles

\* The button is rendered only while exampleFields.length > 1.
RemoveExample(exampleIndex) ==
  /\ EditStep
  /\ Len(form.typography.examples) > 1
  /\ exampleIndex < Len(form.typography.examples)
  /\ form' = [form EXCEPT !.typography.examples = RemoveAt(@, exampleIndex)]
  /\ UNCHANGED uploadedFiles

\* ---- logos ----

AppendLogo ==
  /\ EditStep
  /\ Len(form.logos) < LogoLimit
  /\ form' = [form EXCEPT !.logos = Append(@, NewLogo)]
  /\ UNCHANGED uploadedFiles

\* RemoveLogo with the trash button rendered for a single logo too.
RemoveLogoUnguarded(logoIndex) ==
  /\ EditStep
  /\ logoIndex < Len(form.logos)
  /\ form' = [form EXCEPT !.logos = RemoveAt(@, logoIndex)]
  /\ UNCHANGED uploadedFiles

\* The button is rendered while logoFields.length > 1; the store is not touched.
RemoveLogo(logoIndex) ==
  /\ EditStep
  /\ Len(form.logos) > 1
  /\ logoIndex < Len(form.logos)
  /\ form' = [form EXCEPT !.logos = RemoveAt(@, logoIndex)]
  /\ UNCHANGED uploadedFiles

AddVariant(logoIndex) ==
  /\ EditStep
  /\ logoIndex < Len(form.logos)
  /\ Len(At(form.logos, logoIndex).variants) < VariantLimit
  /\ form' = [form EXCEPT !.logos[logoIndex + 1].variants = Append(@, NewVariant)]
  /\ UNCHANGED uploadedFiles

\* ext === 'SVG' ? 'SVG' : ext || 'PNG', ext the upper-cased extension.
FormatLabel(file) ==
  LET ext == toUpperCase(extension(file.name))
  IN  IF ext = <<"S", "V", "G">> THEN <<"S", "V", "G">>
      ELSE IF ext # Empty THEN ext ELSE <<"P", "N", "G">>

\* What both upload paths of a logo variant do once they have a file.
StoreLogoFile(logoIndex, variantIndex, file) ==
  /\ uploadedFiles' =
       [uploadedFiles EXCEPT !.logos =
          With(@, logoIndex, AssignAt(FilesAt(@, logoIndex), variantIndex, file))]
  /\ form' = [form EXCEPT !.logos[logoIndex + 1].variants[variantIndex + 1] =
                [label |-> FormatLabel(file),
                 src   |-> LogosDir \o file.name,
                 up    |-> file]]

\* onChange of the variant's file input: any file the picker returns is taken.
LogoFileChange(logoIndex, variantIndex, file) ==
  /\ EditStep
  /\ scope \in LogoUploadScopes
  /\ logoIndex < Len(form.logos)
  /\ variantIndex < Len(At(form.logos, logoIndex).variants)
  /\ StoreLogoFile(logoIndex, variantIndex, file)

\* onDrop of the variant's drop zone: a file that is no image is refused (only
\* the transient uploadErrors banner changes, which this model does not carry).
LogoDrop(logoIndex, variantIndex, file) ==
  /\ EditStep
  /\ scope \in LogoUploadScopes
  /\ logoIndex < Len(form.logos)
  /\ variantIndex < Len(At(form.logos, logoIndex).variants)
  /\ IF IsImage(file)
     THEN StoreLogoFile(logoIndex, variantIndex, file)
     ELSE UNCHANGED <<form, uploadedFiles>>

\* Rendered while the logo has more than one variant.
RemoveVariant(logoIndex, variantIndex) ==
  /\ EditStep
  /\ logoIndex < Len(form.logos)
  /\ Len(At(form.logos, logoIndex).variants) > 1
  /\ variantIndex < Len(At(form.logos, logoIndex).variants)
  /\ form' = [form EXCEPT !.logos[logoIndex + 1].variants = RemoveAt(@, variantIndex)]
  /\ uploadedFiles' =
       [uploadedFiles EXCEPT !.logos =
          IF logoIndex \in Keys(@)
          THEN With(@, logoIndex, FilterOut(@[logoIndex], variantIndex, 0))
          ELSE @]

\* ---- fonts ----

AppendFont ==
  /\ EditStep
  /\ Len(form.typography.fonts) < FontLimit
  /\ form' = [form EXCEPT !.typography.fonts = Append(@, NewFont)]
  /\ UNCHANGED uploadedFiles

\* Rendered while fontFields.length > 1; the store is not touched.
RemoveFont(fontIndex) ==
  /\ EditStep
  /\ Len(form.typography.fonts) > 1
  /\ fontIndex < Len(form.typography.fonts)
  /\ form' = [form EXCEPT !.typography.fonts = RemoveAt(@, fontIndex)]
  /\ UNCHANGED uploadedFiles

\* onChange of the font's file input: the picked files replace the font's list.
FontFileChange(fontIndex, files) ==
  /\ EditStep
  /\ scope \in FontUploadScopes
  /\ Len(files) <= PickLimit
  /\ fontIndex < Len(form.typography.fonts)
  /\ Len(files) > 0
  /\ uploadedFiles' = [uploadedFiles EXCEPT !.fonts = With(@, fontIndex, files)]
  /\ UNCHANGED form

\* onDrop of the font's drop zone: the files with a font extension are kept; a
\* drop with none of them is refused.
FontDrop(fontIndex, allFiles) ==
  /\ EditStep
  /\ scope \in FontUploadScopes
  /\ Len(allFiles) <= PickLimit
  /\ fontIndex < Len(form.typography.fonts)
  /\ LET validFiles == SelectSeq(allFiles, IsFontName)
     IN  IF Len(validFiles) > 0
         THEN /\ uploadedFiles' =
                   [uploadedFiles EXCEPT !.fonts = With(@, fontIndex, validFiles)]
              /\ UNCHANGED form
         ELSE UNCHANGED <<form, uploadedFiles>>

\* ---- gallery ----

\* files.forEach: each file is appended to the gallery and stored under the
\* length the gallery had just before. The result is <<gallery, store.gallery>>.
RECURSIVE AppendGalleryFiles(_, _, _)
AppendGalleryFiles(gallery, stored, files) ==
  IF files = <<>> THEN <<gallery, stored>>
  ELSE LET file          == Head(files)
           currentLength == Len(gallery)
       IN  AppendGalleryFiles(
             Append(gallery, [caption |-> Empty,
                              src |-> Slash \o GalleryDir \o file.name,
                              up |-> file]),
             With(stored, currentLength, file),
             Tail(files))

StoreGalleryFiles(files) ==
  LET r == AppendGalleryFiles(form.gallery, uploadedFiles.gallery, files)
  IN  /\ form' = [form EXCEPT !.gallery = r[1]]
      /\ uploadedFiles' = [uploadedFiles EXCEPT !.gallery = r[2]]

\* onChange of the gallery's file input.
GalleryFileChange(files) ==
  /\ EditStep
  /\ Len(form.gallery) + Len(files) <= GalleryLimit
  /\ StoreGalleryFiles(files)

\* onDrop of the gallery's drop zone: the image files are kept, a drop without
\* any is refused.
GalleryDrop(allFiles) ==
  /\ EditStep
  /\ LET validFiles == SelectSeq(allFiles, IsImage)
     IN  /\ Len(form.gallery) + Len(validFiles) <= GalleryLimit
         /\ IF Len(validFiles) > 0
            THEN StoreGalleryFiles(validFiles)
            ELSE UNCHANGED <<form, uploadedFiles>>

\* The remove button of a gallery item: the item goes, and so does the store's
\* entry under that index; the entries under higher indices keep their keys.
RemoveGallery(galleryIndex) ==
  /\ EditStep
  /\ galleryIndex < Len(form.gallery)
  /\ form' = [form EXCEPT !.gallery = RemoveAt(@, galleryIndex)]
  /\ uploadedFiles' = [uploadedFiles EXCEPT !.gallery = Without(@, galleryIndex)]

(***************************************************************************)
(* onSubmit                                                                *)
(***************************************************************************)

\* The part of brandDataSchema over the fields this model carries (the other
\* fields are taken as filled in validly): handleSubmit calls onSubmit only
\* with a document the zod resolver accepts.
\* \d of the regular expressions.
IsDigit(c) == DigitVal(c) < 10

IsLetter(c) ==
  \/ \E i \in 1..Len(LowerLetters) : LowerLetters[i] = c
  \/ \E i \in 1..Len(UpperLetters) : UpperLetters[i] = c

\* \d{1,3}
Digits1To3(s) == Len(s) \in 1..3 /\ \A i \in 1..Len(s) : IsDigit(s[i])

\* /^#[0-9A-Fa-f]{6}$/
MatchesHex(s) ==
  /\ Len(s) = 7
  /\ s[1] = "#"
  /\ \A i \in 2..7 : DigitVal(s[i]) < 16

\* /^\d{1,3},\s*\d{1,3},\s*\d{1,3}$/ for n = 3, with a fourth group for n = 4.
MatchesDecimals(s, n) ==
  LET parts == split(s, ",")
  IN  /\ Len(parts) = n
      /\ Digits1To3(parts[1])
      /\ \A i \in 2..n : Digits1To3(TrimStart(parts[i]))

\* /^\d{4}-\d{2}-\d{2}$/
MatchesDate(s) ==
  /\ Len(s) = 10
  /\ \A i \in {1, 2, 3, 4, 6, 7, 9, 10} : IsDigit(s[i])
  /\ s[5] = "-" /\ s[8] = "-"

\* z.string().url(): the text is an absolute URL, a scheme of letters followed
\* by ":" and more text.
IsUrl(s) ==
  \E i \in 2..Len(s) :
    /\ s[i] = ":"
    /\ i < Len(s)
    /\ \A j \in 1..(i - 1) : IsLetter(s[j])

\* The name of an array index in a field path.
Key(i) == DigitChar(i)

\* z.string().min(1), z.array(...).min(1): the issue at path when it is empty.
\* .min(1) left out.
MinOneUnchecked(value, path) == {}

MinOne(value, path) == IF Len(value) >= 1 THEN {} ELSE {path}

\* A regular expression or format check: the issue at path when it fails.
Check(ok, path) == IF ok THEN {} ELSE {path}

brandInfoSchema(brand) ==
  MinOne(brand.name, <<"brand", "name">>)
    \cup MinOne(brand.description, <<"brand", "description">>)
    \cup Check(IsUrl(brand.website), <<"brand", "website">>)
    \cup Check(MatchesDate(brand.updatedAt), <<"brand", "updatedAt">>)

logoVariantSchema(variant, path) ==
  MinOne(variant.label, path \o <<"label">>)
    \cup MinOne(variant.src, path \o <<"src">>)

logoSchema(logo, path) ==
  MinOne(logo.name, path \o <<"name">>)
    \cup MinOne(logo.description, path \o <<"description">>)
    \cup MinOne(logo.variants, path \o <<"variants">>)
    \cup UNION {logoVariantSchema(logo.variants[v], path \o <<"variants", Key(v - 1)>>) :
                  v \in 1..Len(logo.variants)}

colorValuesSchema(values, path) ==
  Check(MatchesHex(values.hex), path \o <<"hex">>)
    \cup Check(MatchesDecimals(values.rgb, 3), path \o <<"rgb">>)
    \cup Check(MatchesDecimals(values.cmyk, 4), path \o <<"cmyk">>)

colorSchema(color, path) ==
  MinOne(color.name, path \o <<"name">>)
    \cup MinOne(color.role, path \o <<"role">>)
    \cup colorValuesSchema(color.values, path \o <<"values">>)

fontSourceSchema(source, path) ==
  Check(source.type \in {"google", "local", "url"}, path \o <<"type">>)
    \cup MinOne(source.family, path \o <<"family">>)
    \cup MinOne(source.weights, path \o <<"weights">>)

fontSchema(font, path) ==
  MinOne(font.name, path \o <<"name">>)
    \cup fontSourceSchema(font.source, path \o <<"source">>)

typographyExampleSchema(example, path) ==
  MinOne(example.label, path \o <<"label">>)
    \cup MinOne(example.font, path \o <<"font">>)
    \cup Check(example.sizePx >= 1, path \o <<"sizePx">>)
    \cup Check(example.weight >= 100 /\ example.weight <= 900, path \o <<"weight">>)
    \cup MinOne(example.text, path \o <<"text">>)

typographySchema(typography) ==
  MinOne(typography.fonts, <<"typography", "fonts">>)
    \cup UNION {fontSchema(typography.fonts[f], <<"typography", "fonts", Key(f - 1)>>) :
                  f \in 1..Len(typography.fonts)}
    \cup MinOne(typography.examples, <<"typography", "examples">>)
    \cup UNION {typographyExampleSchema(typography.examples[e],
                                         <<"typography", "examples", Key(e - 1)>>) :
                  e \in 1..Len(typography.examples)}

galleryItemSchema(item, path) == MinOne(item.src, path \o <<"src">>)

\* brandDataSchema: the field paths of the issues zod reports for a document.
brandDataSchema(doc) ==
  brandInfoSchema(doc.brand)
    \cup MinOne(doc.logos, <<"logos">>)
    \cup UNION {logoSchema(doc.logos[l], <<"logos", Key(l - 1)>>) :
                  l \in 1..Len(doc.logos)}
    \cup MinOne(doc.colors, <<"colors">>)
    \cup UNION {colorSchema(doc.colors[c], <<"colors", Key(c - 1)>>) :
                  c \in 1..Len(doc.colors)}
    \cup typographySchema(doc.typography)
    \cup UNION {galleryItemSchema(doc.gallery[g], <<"gallery", Key(g - 1)>>) :
                  g \in 1..Len(doc.gallery)}

\* zodResolver(brandDataSchema): the document passes when no issue is reported.
Valid(doc) == brandDataSchema(doc) = {}

\* new JSZip(): an archive without file entries. The entries are kept by their
\* full path, a file(name, ...) under an existing name replacing that entry.
NewJSZip == {}

ZipFile(zip, name, content) ==
  {e \in zip : e.name # name} \cup {[name |-> name, content |-> content]}

\* The state of the synchronous part of onSubmit: the data object it was given,
\* the asset entries of the archive, and whether a TypeError has been thrown.
Started(data) == [data |-> data, zip |-> NewJSZip, threw |-> FALSE]

Dash == <<"-">>

Dot == <<".">>

\* LogoStep numbering the file by the 0-based variantIndex.
LogoStepZeroBased(st, logoIndex, variantIndex, file) ==
  IF st.threw THEN st
  ELSE IF logoIndex >= Len(st.data.logos)
  THEN [st EXCEPT !.threw = TRUE]
  ELSE
    LET ext      == extension(file.name)
        logoName == slugify(At(st.data.logos, logoIndex).name)
        filename == logoName \o Dash \o toString(variantIndex, 10) \o Dot \o ext
        zip      == ZipFile(st.zip, LogosDir \o filename, file)
    IN  IF variantIndex >= Len(At(st.data.logos, logoIndex).variants)
        THEN [st EXCEPT !.zip = zip, !.threw = TRUE]
        ELSE [st EXCEPT !.zip = zip,
                        !.data.logos[logoIndex + 1].variants[variantIndex + 1].src =
                           Slash \o LogosDir \o filename]

\* LogoStep stamping the file name with a value that changes between
\* invocations (the number of exports so far).
LogoStepStamped(st, logoIndex, variantIndex, file) ==
  IF st.threw THEN st
  ELSE IF logoIndex >= Len(st.data.logos)
  THEN [st EXCEPT !.threw = TRUE]
  ELSE
    LET ext      == extension(file.name)
        logoName == slugify(At(st.data.logos, logoIndex).name)
        filename == logoName \o Dash \o toString(variantIndex + 1, 10) \o Dash
                      \o toString(Len(runs), 10) \o Dot \o ext
        zip      == ZipFile(st.zip, LogosDir \o filename, file)
    IN  IF variantIndex >= Len(At(st.data.logos, logoIndex).variants)
        THEN [st EXCEPT !.zip = zip, !.threw = TRUE]
        ELSE [st EXCEPT !.zip = zip,
                        !.data.logos[logoIndex + 1].variants[variantIndex + 1].src =
                           Slash \o LogosDir \o filename]

\* The body of files.forEach for one file of a logo (lines 163-170).
LogoStep(st, logoIndex, variantIndex, file) ==
  IF st.threw THEN st
  ELSE IF logoIndex >= Len(st.data.logos)
  THEN [st EXCEPT !.threw = TRUE]             \* data.logos[i] is undefined: .name throws
  ELSE
    LET ext      == extension(file.name)
        logoName == slugify(At(st.data.logos, logoIndex).name)
        filename == logoName \o Dash \o toString(variantIndex + 1, 10) \o Dot \o ext
        zip      == ZipFile(st.zip, LogosDir \o filename, file)
    IN  IF variantIndex >= Len(At(st.data.logos, logoIndex).variants)
        THEN [st EXCEPT !.zip = zip, !.threw = TRUE]   \* variants[v] is undefined
        ELSE [st EXCEPT !.zip = zip,
                        !.data.logos[logoIndex + 1].variants[variantIndex + 1].src =
                           Slash \o LogosDir \o filename]

\* files.forEach((file, variantIndex) => ...): holes are not visited.
RECURSIVE LogoFilesLoop(_, _, _, _)
LogoFilesLoop(st, logoIndex, files, variantIndex) ==
  IF variantIndex >= Len(files) THEN st
  ELSE IF At(files, variantIndex) = undefined
  THEN LogoFilesLoop(st, logoIndex, files, variantIndex + 1)
  ELSE LogoFilesLoop(LogoStep(st, logoIndex, variantIndex, At(files, variantIndex)),
                     logoIndex, files, variantIndex + 1)

\* Object.entries yields index keys in ascending order.
MinKey(keys) == CHOOSE k \in keys : \A j \in keys : k <= j

\* for (const [logoIndex, files] of Object.entries(uploadedFiles.logos))
RECURSIVE ProcessLogos(_, _, _)
ProcessLogos(st, stored, keys) ==
  IF keys = {} THEN st
  ELSE LET k == MinKey(keys)
       IN  ProcessLogos(LogoFilesLoop(st, k, stored[k], 0), stored, keys \ {k})

\* GalleryStep numbering the photo by the 0-based galleryIndex.
GalleryStepZeroBased(st, galleryIndex, file) ==
  IF st.threw THEN st
  ELSE
    LET ext      == extension(file.name)
        filename == <<"p", "h", "o", "t", "o", "-">> \o toString(galleryIndex, 10)
                      \o Dot \o ext
        zip      == ZipFile(st.zip, GalleryDir \o filename, file)
    IN  IF galleryIndex >= Len(st.data.gallery)
        THEN [st EXCEPT !.zip = zip, !.threw = TRUE]
        ELSE [st EXCEPT !.zip = zip,
                        !.data.gallery[galleryIndex + 1].src =
                           Slash \o GalleryDir \o filename]

\* GalleryStep writing the new path into every gallery item.
GalleryStepAll(st, galleryIndex, file) ==
  IF st.threw THEN st
  ELSE
    LET ext      == extension(file.name)
        filename == <<"p", "h", "o", "t", "o", "-">> \o toString(galleryIndex + 1, 10)
                      \o Dot \o ext
        zip      == ZipFile(st.zip, GalleryDir \o filename, file)
    IN  IF galleryIndex >= Len(st.data.gallery)
        THEN [st EXCEPT !.zip = zip, !.threw = TRUE]
        ELSE [st EXCEPT !.zip = zip,
                        !.data.gallery = [g \in 1..Len(st.data.gallery) |->
                           [st.data.gallery[g] EXCEPT
                              !.src = Slash \o GalleryDir \o filename]]]

\* The body of the gallery loop for one key (lines 176-180).
GalleryStep(st, galleryIndex, file) ==
  IF st.threw THEN st
  ELSE
    LET ext      == extension(file.name)
        filename == <<"p", "h", "o", "t", "o", "-">> \o toString(galleryIndex + 1, 10)
                      \o Dot \o ext
        zip      == ZipFile(st.zip, GalleryDir \o filename, file)
    IN  IF galleryIndex >= Len(st.data.gallery)
        THEN [st EXCEPT !.zip = zip, !.threw = TRUE]   \* data.gallery[i] is undefined
        ELSE [st EXCEPT !.zip = zip,
                        !.data.gallery[galleryIndex + 1].src =
                           Slash \o GalleryDir \o filename]

\* for (const [galleryIndex, file] of Object.entries(uploadedFiles.gallery))
RECURSIVE ProcessGallery(_, _, _)
ProcessGallery(st, stored, keys) ==
  IF keys = {} THEN st
  ELSE LET k == MinKey(keys)
       IN  ProcessGallery(GalleryStep(st, k, stored[k]), stored, keys \ {k})

\* FontStep writing the path of the entry back into the font.
FontStepWritingBack(st, fontIndex, file) ==
  IF st.threw THEN st
  ELSE IF fontIndex >= Len(st.data.typography.fonts)
  THEN [st EXCEPT !.threw = TRUE]
  ELSE
    LET fontName == slugify(At(st.data.typography.fonts, fontIndex).name)
        filename == fontName \o Dash \o file.name
    IN  [st EXCEPT !.zip = ZipFile(st.zip, FontsDir \o filename, file),
                   !.data.typography.fonts[fontIndex + 1].source.family =
                      Slash \o FontsDir \o filename]

\* The body of files.forEach for one file of a font (lines 186-190).
FontStep(st, fontIndex, file) ==
  IF st.threw THEN st
  ELSE IF fontIndex >= Len(st.data.typography.fonts)
  THEN [st EXCEPT !.threw = TRUE]             \* fonts[i] is undefined: .name throws
  ELSE
    LET fontName == slugify(At(st.data.typography.fonts, fontIndex).name)
        filename == fontName \o Dash \o file.name
    IN  [st EXCEPT !.zip = ZipFile(st.zip, FontsDir \o filename, file)]

RECURSIVE FontFilesLoop(_, _, _, _)
FontFilesLoop(st, fontIndex, files, i) ==
  IF i >= Len(files) THEN st
  ELSE FontFilesLoop(FontStep(st, fontIndex, At(files, i)), fontIndex, files, i + 1)

\* for (const [fontIndex, files] of Object.entries(uploadedFiles.fonts))
RECURSIVE ProcessFonts(_, _, _)
ProcessFonts(st, stored, keys) ==
  IF keys = {} THEN st
  ELSE LET k == MinKey(keys)
       IN  ProcessFonts(FontFilesLoop(st, k, stored[k], 0), stored, keys \ {k})

\* JSON.stringify(data, null, 2): the text is represented by the values of the
\* fields it spells out, which are the fields of the document (the history
\* field up is not one of them).
stringify(data) ==
  [data EXCEPT
     !.logos = [l \in 1..Len(data.logos) |->
        [data.logos[l] EXCEPT !.variants = [v \in 1..Len(data.logos[l].variants) |->
           [label |-> data.logos[l].variants[v].label,
            src   |-> data.logos[l].variants[v].src]]]],
     !.gallery = [g \in 1..Len(data.gallery) |->
        [caption |-> data.gallery[g].caption, src |-> data.gallery[g].src]]]

\* zip.file("data.json", ...): the name of the entry of the document.
DataJsonName == <<"d", "a", "t", "a", ".", "j", "s", "o", "n">>

\* Layout serialising the document before the gallery loop.
LayoutEarlyJson(data, stored) ==
  LET s0 == Started(data)
      s1 == ProcessLogos(s0, stored.logos, Keys(stored.logos))
      s2 == ProcessGallery(s1, stored.gallery, Keys(stored.gallery))
      s3 == ProcessFonts(s2, stored.fonts, Keys(stored.fonts))
  IN  [data     |-> s3.data,
       zip      |-> s3.zip,
       threw    |-> s3.threw,
       dataJson |-> IF s3.threw THEN <<>>
                    ELSE <<[name |-> DataJsonName, content |-> stringify(s1.data)]>>]

\* onSubmit up to its await (lines 152-195): the three loops in order, then
\* data.json is added unless a loop has thrown.
Layout(data, stored) ==
  LET s0 == Started(data)
      s1 == ProcessLogos(s0, stored.logos, Keys(stored.logos))
      s2 == ProcessGallery(s1, stored.gallery, Keys(stored.gallery))
      s3 == ProcessFonts(s2, stored.fonts, Keys(stored.fonts))
  IN  [data     |-> s3.data,
       zip      |-> s3.zip,
       threw    |-> s3.threw,
       dataJson |-> IF s3.threw THEN <<>>
                    ELSE <<[name |-> DataJsonName, content |-> stringify(s3.data)]>>]

\* `${data.brand.name.toLowerCase().replace(/\s+/g, "-")}-brand-kit.zip`
DownloadName(data) ==
  slugify(data.brand.name)
    \o <<"-", "b", "r", "a", "n", "d", "-", "k", "i", "t", ".", "z", "i", "p">>

\* Submit of a form built without the resolver: onSubmit runs on whatever the
\* form holds.
SubmitUnvalidated ==
  /\ Len(runs) < ExportLimit
  /\ LET data == form
         out  == Layout(data, uploadedFiles)
     IN  runs' = Append(runs,
                   [dataIn    |-> data,
                    filesIn   |-> uploadedFiles,
                    completed |-> {k \in 1..Len(runs) : runs[k].pc = "done"},
                    data      |-> out.data,
                    zip       |-> out.zip,
                    dataJson  |-> out.dataJson,
                    pc        |-> IF out.threw THEN "threw" ELSE "awaiting",
                    url       |-> "none",
                    download  |-> Empty])
  /\ errors' = {}
  /\ UNCHANGED <<form, uploadedFiles, scope, lateEdits, codecVars>>

\* handleSubmit(onSubmit): the resolver validates the form values and onSubmit
\* runs on the validated copy, synchronously up to await zip.generateAsync.
\* dataIn and filesIn record what the invocation was given, completed the
\* invocations that had produced their archive when this one started.
Submit ==
  /\ Len(runs) < ExportLimit
  /\ Valid(form)
  /\ LET data == form
         out  == Layout(data, uploadedFiles)
     IN  runs' = Append(runs,
                   [dataIn    |-> data,
                    filesIn   |-> uploadedFiles,
                    completed |-> {k \in 1..Len(runs) : runs[k].pc = "done"},
                    data      |-> out.data,
                    zip       |-> out.zip,
                    dataJson  |-> out.dataJson,
                    pc        |-> IF out.threw THEN "threw" ELSE "awaiting",
                    url       |-> "none",
                    download  |-> Empty])
  /\ errors' = {}
  /\ UNCHANGED <<form, uploadedFiles, scope, lateEdits, codecVars>>

\* The behaviours in which the submit button is pressed on values the resolver
\* rejects: those that edit the colours, and those of scope "await".
RejectScopes == {"colors", "await"}

\* handleSubmit on values the resolver rejects: the issues' field paths become
\* formState.errors and onSubmit is not called.
SubmitInvalid ==
  /\ scope \in RejectScopes
  /\ ~Valid(form)
  /\ errors' = brandDataSchema(form)
  /\ UNCHANGED <<form, uploadedFiles, runs, scope, lateEdits, codecVars>>

\* The calls made after the await, in order (lines 199-206).
DownloadSteps ==
  <<"createObjectURL", "createElement", "appendChild", "click", "removeChild",
    "revokeObjectURL">>

StepIndex(step) == CHOOSE i \in 1..Len(DownloadSteps) : DownloadSteps[i] = step

\* The steps that can fail: every one before the release.
FailingSteps == {DownloadSteps[i] : i \in 1..(Len(DownloadSteps) - 1)}

\* GenerateResolve laying the archive out after the await, from what the form
\* and the store hold by then.
GenerateResolveLateLayout(i, failAt) ==
  /\ i \in 1..Len(runs)
  /\ runs[i].pc = "awaiting"
  /\ LET reached(step) == failAt = "none" \/ StepIndex(step) < StepIndex(failAt)
         out == Layout(form, uploadedFiles)
     IN  runs' = [runs EXCEPT ![i] =
           [@ EXCEPT
              !.zip      = out.zip,
              !.dataJson = out.dataJson,
              !.pc       = IF failAt = "none" THEN "done" ELSE "failed",
              !.url      = IF reached("revokeObjectURL") THEN "revoked"
                           ELSE IF reached("createObjectURL") THEN "created"
                           ELSE "none",
              !.download = IF reached("click") THEN DownloadName(runs[i].data) ELSE Empty]]
  /\ UNCHANGED <<form, uploadedFiles, scope, lateEdits, errors, codecVars>>

\* zip.generateAsync resolves and onSubmit runs to its end, or to the step that
\* throws (failAt; "none" when every step succeeds). Nothing catches an
\* exception, and revokeObjectURL is the last statement.
GenerateResolve(i, failAt) ==
  /\ i \in 1..Len(runs)
  /\ runs[i].pc = "awaiting"
  /\ LET reached(step) == failAt = "none" \/ StepIndex(step) < StepIndex(failAt)
     IN  runs' = [runs EXCEPT ![i] =
           [@ EXCEPT
              !.pc       = IF failAt = "none" THEN "done" ELSE "failed",
              !.url      = IF reached("revokeObjectURL") THEN "revoked"
                           ELSE IF reached("createObjectURL") THEN "created"
                           ELSE "none",
              !.download = IF reached("click") THEN DownloadName(runs[i].data) ELSE Empty]]
  /\ UNCHANGED <<form, uploadedFiles, scope, lateEdits, errors, codecVars>>

\* zip.generateAsync rejects: onSubmit ends at the await.
GenerateReject(i) ==
  /\ i \in 1..Len(runs)
  /\ runs[i].pc = "awaiting"
  /\ runs' = [runs EXCEPT ![i].pc = "failed"]
  /\ UNCHANGED <<form, uploadedFiles, scope, lateEdits, errors, codecVars>>

(***************************************************************************)
(* The form as a state machine                                             *)
(***************************************************************************)

LogoIndices == 0..(MaxLogos - 1)

VariantIndices == 0..(MaxVariants - 1)

FontIndices == 0..(MaxFonts - 1)

ColorIndices == 0..(MaxColors - 1)

ExampleIndices == 0..(MaxExamples - 1)

GalleryIndices == 0..(MaxGallery - 1)

\* The form as constructed; no conversion chain is running.
NoChain ==
  /\ codecOrig = Empty
  /\ codecValue = Empty
  /\ codecFormat = "hex"
  /\ codecTrace = <<>>

FormInit ==
  /\ form = defaultValues
  /\ uploadedFiles = NoFiles
  /\ runs = <<>>
  /\ scope \in Scopes
  /\ lateEdits = 0
  /\ errors = {}

Next ==
  \/ \E n \in BrandNames : SetBrandName(n)
  \/ \E l \in LogoIndices, n \in LogoNames : SetLogoName(l, n)
  \/ \E f \in FontIndices, n \in FontNames : SetFontName(f, n)
  \/ FillDetails
  \/ \E c \in ColorIndices, text \in HexTexts : SetHex(c, text)
  \/ \E c \in ColorIndices, text \in RgbTexts : SetRgb(c, text)
  \/ \E c \in ColorIndices, text \in CmykTexts : SetCmyk(c, text)
  \/ \E c \in ColorIndices : ConvertHex(c)
  \/ \E c \in ColorIndices : ConvertRgb(c)
  \/ \E c \in ColorIndices : ConvertCmyk(c)
  \/ AppendColor
  \/ \E c \in ColorIndices : RemoveColor(c)
  \/ AppendExample
  \/ \E e \in ExampleIndices : RemoveExample(e)
  \/ AppendLogo
  \/ \E l \in LogoIndices : RemoveLogo(l)
  \/ \E l \in LogoIndices : AddVariant(l)
  \/ \E l \in LogoIndices, v \in VariantIndices, file \in Files : LogoFileChange(l, v, file)
  \/ \E l \in LogoIndices, v \in VariantIndices, file \in Files : LogoDrop(l, v, file)
  \/ \E l \in LogoIndices, v \in VariantIndices : RemoveVariant(l, v)
  \/ AppendFont
  \/ \E f \in FontIndices : RemoveFont(f)
  \/ \E f \in FontIndices, files \in FileLists : FontFileChange(f, files)
  \/ \E f \in FontIndices, files \in FileLists : FontDrop(f, files)
  \/ \E files \in FileLists : GalleryFileChange(files)
  \/ \E files \in FileLists : GalleryDrop(files)
  \/ \E g \in GalleryIndices : RemoveGallery(g)
  \/ Submit
  \/ SubmitInvalid
  \/ \E i \in 1..MaxExports, failAt \in FailingSteps \cup {"none"} : GenerateResolve(i, failAt)
  \/ \E i \in 1..MaxExports : GenerateReject(i)

Init == FormInit /\ NoChain

Spec == Init /\ [][Next]_vars

(***************************************************************************)
(* The codec applied to inputs: a value is carried through a chain of      *)
(* conversions, each action applying one of the six functions.             *)
(***************************************************************************)

\* Longest chain of conversions applied to one input.
MaxChain == 2

\* The hex digits the inputs are drawn from.
HexSample == {"0", "1", "4", "a", "F"}

\* '#' followed by six digits of the sample.
HexInputs ==
  {<<"#", a, b, c, d, e, f>> : a \in HexSample, b \in HexSample, c \in HexSample,
                                d \in HexSample, e \in HexSample, f \in HexSample}

\* The form stays as constructed while the codec is exercised.
CodecInit ==
  /\ FormInit
  /\ scope = "logos"
  /\ codecOrig \in HexInputs
  /\ codecValue = codecOrig
  /\ codecFormat = "hex"
  /\ codecTrace = <<>>

Apply(fn, from, to, result) ==
  /\ codecFormat = from
  /\ Len(codecTrace) < MaxChain
  /\ codecValue' = result
  /\ codecFormat' = to
  /\ codecTrace' = Append(codecTrace, fn)
  /\ UNCHANGED <<codecOrig, formVars>>

ApplyHexToRgb == Apply("hexToRgb", "hex", "rgb", hexToRgb(codecValue))

ApplyHexToCmyk == Apply("hexToCmyk", "hex", "cmyk", hexToCmyk(codecValue))

ApplyRgbToHex == Apply("rgbToHex", "rgb", "hex", rgbToHex(codecValue))

ApplyRgbToCmyk == Apply("rgbToCmyk", "rgb", "cmyk", rgbToCmyk(codecValue))

ApplyCmykToRgb == Apply("cmykToRgb", "cmyk", "rgb", cmykToRgb(codecValue))

ApplyCmykToHex == Apply("cmykToHex", "cmyk", "hex", cmykToHex(codecValue))

CodecNext ==
  \/ ApplyHexToRgb
  \/ ApplyHexToCmyk
  \/ ApplyRgbToHex
  \/ ApplyRgbToCmyk
  \/ ApplyCmykToRgb
  \/ ApplyCmykToHex

CodecSpec == CodecInit /\ [][CodecNext]_vars

\* Live text of the colour inputs, well-formed and not, by the format of the
\* input it is typed into.
HexSamples ==
  {<<"#", "Z", "Z", "Z", "Z", "Z", "Z">>,  \* "#ZZZZZZ"
   <<"#", "1", "2", "3", "4", "5">>,  \* "#12345"
   <<>>,  \* ""
   <<"#", "0", "0", "a", "0", "F", "1">>,  \* "#00a0F1"
   <<"0", "0", "a", "0", "F", "1">>,  \* "00a0F1"
   <<"#", "-", "1", "-", "1", "-", "1">>,  \* "#-1-1-1"
   <<"#", "#", "0", "0", "0", "0", "0">>,  \* "##00000"
   <<"#", "0", "x", "0", "x", "0", "x">>,  \* "#0x0x0x"
   <<"#", " ", "1", " ", "2", " ", "3">>}  \* "# 1 2 3"

RgbSamples ==
  {<<"1", ",", " ", "2">>,  \* "1, 2"
   <<"1", ",", " ", "2", ",", " ", "x">>,  \* "1, 2, x"
   <<"2", "5", "6", ",", " ", "0", ",", " ", "0">>,  \* "256, 0, 0"
   <<"-", "1", ",", " ", "0", ",", " ", "0">>,  \* "-1, 0, 0"
   <<"1", ".", "5", ",", " ", "2", ",", " ", "3">>,  \* "1.5, 2, 3"
   <<"0", ",", "6", "4", ",", "6", "5">>,  \* "0,64,65"
   <<"3", "0", "0", ",", " ", "0", ",", " ", "0">>,  \* "300, 0, 0"
   <<"1", ",", " ", "2", ",", " ", "3", "a", "b", "c">>,  \* "1, 2, 3abc"
   <<"1", "0", "0", "0", ",", " ", "1", "0", "0", "0", ",", " ", "1", "0", "0", "0">>}  \* "1000, 1000, 1000"

CmykSamples ==
  {<<"0", ",", " ", "0", ",", " ", "0">>,  \* "0, 0, 0"
   <<"0", ",", " ", "0", ",", " ", "0", ",", " ", "2", "0", "0">>,  \* "0, 0, 0, 200"
   <<"1", "0", "0", ",", " ", "2", ",", " ", "0", ",", " ", "7", "5">>,  \* "100, 2, 0, 75"
   <<"0", ",", " ", "0", ",", " ", "0", ",", " ", "x">>,  \* "0, 0, 0, x"
   <<"-", "5", "0", ",", " ", "0", ",", " ", "0", ",", " ", "0">>,  \* "-50, 0, 0, 0"
   <<"0", ",", " ", "0", ",", " ", "0", ",", " ", "1", "0", "0", "0">>}  \* "0, 0, 0, 1000"

\* The codec applied to the text of an input as it stands.
CodecTextInit ==
  /\ FormInit
  /\ scope = "logos"
  /\ \/ codecFormat = "hex" /\ codecOrig \in HexSamples
     \/ codecFormat = "rgb" /\ codecOrig \in RgbSamples
     \/ codecFormat = "cmyk" /\ codecOrig \in CmykSamples
  /\ codecValue = codecOrig
  /\ codecTrace = <<>>

CodecTextSpec == CodecTextInit /\ [][CodecNext]_vars

\* Byte values and percentages the in-range rgb and cmyk inputs are built from.
ByteSample == {0, 1, 5, 7, 8, 128, 254, 255}

PercentSample == {0, 1, 50, 80, 90, 100}

\* The codec applied to "R, G, B" and "C, M, Y, K" texts whose numbers are in
\* range.
CodecRangeInit ==
  /\ FormInit
  /\ scope = "logos"
  /\ \/ /\ codecFormat = "rgb"
        /\ codecOrig \in {JoinDecimal(<<r, g, b>>) :
                            r \in ByteSample, g \in ByteSample, b \in ByteSample}
     \/ /\ codecFormat = "cmyk"
        /\ codecOrig \in {JoinDecimal(<<c, m, y, k>>) :
                            c \in PercentSample, m \in PercentSample,
                            y \in PercentSample, k \in PercentSample}
  /\ codecValue = codecOrig
  /\ codecTrace = <<>>

CodecRangeSpec == CodecRangeInit /\ [][CodecNext]_vars

\* ---- documents handed to the schema ----

SampleLogo ==
  [name        |-> Acme,
   description |-> Words,
   variants    |-> <<[label |-> Words, src |-> LogosDir \o RawPng.name, up |-> undefined]>>]

SampleColor(hex) ==
  [name   |-> Words,
   role   |-> <<"Primary">>,
   values |-> [hex |-> hex, rgb |-> hexToRgb(Black), cmyk |-> hexToCmyk(Black)]]

SampleFont ==
  [name   |-> Acme,
   source |-> [type |-> "google", family |-> Words, weights |-> <<400>>]]

SampleExample ==
  [label |-> Words, font |-> Words, sizePx |-> 16, weight |-> 400, text |-> Words]

\* Hex texts of the documents: valid ones, and ones the pattern refuses.
SchemaHexes ==
  {Black, SampleHex, BadHex,
   <<"#", "1", "2", "3", "4", "5">>,
   <<"0", "0", "a", "0", "F", "1">>,
   <<"#", "0", "0", "a", "0", "F", "1">>,
   <<"#", "0", "0", "a", "0", "F", "1", "0">>}

\* Documents of the shape of BrandData; each required array is empty or not.
SampleDocs ==
  {[brand      |-> [name |-> MyKit, description |-> Words,
                    website |-> Site, updatedAt |-> Today],
    logos      |-> logos,
    colors     |-> colors,
    typography |-> [fonts |-> fonts, examples |-> examples],
    gallery    |-> <<>>] :
     logos    \in {<<>>, <<SampleLogo>>},
     colors   \in {<<>>} \cup {<<SampleColor(h)>> : h \in SchemaHexes}
                         \cup {<<SampleColor(Black), SampleColor(h)>> : h \in SchemaHexes},
     fonts    \in {<<>>, <<SampleFont>>},
     examples \in {<<>>, <<SampleExample>>}}

\* The form holds some document and the submit button is pressed.
SchemaInit ==
  /\ form \in SampleDocs
  /\ uploadedFiles = NoFiles
  /\ runs = <<>>
  /\ scope = "colors"
  /\ lateEdits = 0
  /\ errors = {}
  /\ NoChain

SchemaNext ==
  \/ Submit
  \/ SubmitInvalid
  \/ \E i \in 1..MaxExports, failAt \in FailingSteps \cup {"none"} : GenerateResolve(i, failAt)
  \/ \E i \in 1..MaxExports : GenerateReject(i)

SchemaSpec == SchemaInit /\ [][SchemaNext]_vars

\* ---- editing while an export is suspended ----

\* A form filled in by the user, with raw.png uploaded for the logo variant and
\* as the one gallery item, and inter.woff uploaded for the font.
PreparedGallery == AppendGalleryFiles(<<>>, <<>>, <<RawPng>>)

PreparedForm ==
  [brand      |-> [name |-> MyKit, description |-> Words,
                   website |-> Site, updatedAt |-> Today],
   logos      |-> <<[name        |-> Acme,
                     description |-> Words,
                     variants    |-> <<[label |-> FormatLabel(RawPng),
                                        src   |-> LogosDir \o RawPng.name,
                                        up    |-> RawPng]>>]>>,
   colors     |-> <<SampleColor(Black)>>,
   typography |-> [fonts |-> <<SampleFont>>, examples |-> <<SampleExample>>],
   gallery    |-> PreparedGallery[1]]

PreparedFiles ==
  [logos   |-> With(<<>>, 0, <<RawPng>>),
   gallery |-> PreparedGallery[2],
   fonts   |-> With(<<>>, 0, <<InterWoff>>)]

\* Export Kit is pressed on the prepared form; in scope "await" the editing
\* steps are taken once onSubmit has been invoked.
AwaitInit ==
  /\ form = PreparedForm
  /\ uploadedFiles = PreparedFiles
  /\ runs = <<>>
  /\ scope = "await"
  /\ lateEdits = 0
  /\ errors = {}
  /\ NoChain

AwaitSpec == AwaitInit /\ [][Next]_vars

(***************************************************************************)
(* Properties of the codec (checked under CodecSpec)                       *)
(***************************************************************************)

\* The chain hexToRgb, rgbToHex has been applied to codecOrig.
HexRgbHexDone == codecTrace = <<"hexToRgb", "rgbToHex">>

\* The chain hexToCmyk, cmykToHex has been applied to codecOrig.
HexCmykHexDone == codecTrace = <<"hexToCmyk", "cmykToHex">>

\* The three bytes of a '#' + 6 hex digit string.
Channels(hex) ==
  <<parseInt(SubSeq(hex, 2, 3), 16),
    parseInt(SubSeq(hex, 4, 5), 16),
    parseInt(SubSeq(hex, 6, 7), 16)>>

IsHexColour(hex) ==
  /\ Len(hex) = 7
  /\ hex[1] = "#"
  /\ \A i \in 2..7 : DigitVal(hex[i]) < 16

Abs(n) == IF n < 0 THEN 0 - n ELSE n

\* The largest difference between corresponding bytes of two hex colours.
Drift(h1, h2) ==
  LET a == Channels(h1)
      b == Channels(h2)
  IN  Max3(Abs(a[1] - b[1]), Abs(a[2] - b[2]), Abs(a[3] - b[3]))

\* C1 as stated: for every valid 6-digit hex string h, upper- or lower-case,
\* rgbToHex(hexToRgb(h)) equals h exactly.
C1_RoundTripExact == HexRgbHexDone => codecValue = codecOrig

\* C1 amended: rgbToHex(hexToRgb(h)) is h with its hex digits in lower case (so
\* it is h itself exactly when h has no upper-case digit).
C1_RoundTripLowerCase == HexRgbHexDone => codecValue = toLowerCase(codecOrig)

\* The round trip of a colour written with an upper-case digit has been taken.
C1_Witness ==
  /\ HexRgbHexDone
  /\ \E i \in 2..7 : codecOrig[i] = "F"
  /\ \E i \in 2..7 : codecOrig[i] = "a"
  /\ codecValue # codecOrig

\* C2 as stated: cmykToHex(hexToCmyk(h)) is a hex string whose R, G and B bytes
\* each differ from the corresponding byte of h by at most 1.
C2_DriftAtMostOne ==
  HexCmykHexDone => IsHexColour(codecValue) /\ Drift(codecValue, codecOrig) <= 1

\* C2 amended: cmykToHex(hexToCmyk(h)) is a hex string whose R, G and B bytes
\* each differ from the corresponding byte of h by at most 2.
C2_DriftAtMostTwo ==
  HexCmykHexDone => IsHexColour(codecValue) /\ Drift(codecValue, codecOrig) <= 2

\* A colour whose round trip through CMYK moves a byte by 2 has been converted.
C2_Witness == HexCmykHexDone /\ Drift(codecValue, codecOrig) = 2

(***************************************************************************)
(* Properties of the export (checked under Spec)                           *)
(***************************************************************************)

\* The logo slots <<logoIndex, variantIndex>> that hold a pending file.
PendingLogos(stored) ==
  {<<l, v>> \in LogoIndices \X (0..MaxVariants) :
     /\ l \in Keys(stored.logos)
     /\ v < Len(stored.logos[l])
     /\ At(stored.logos[l], v) # undefined}

\* The font files <<fontIndex, position>> that are pending.
PendingFonts(stored) ==
  {<<f, i>> \in FontIndices \X (0..MaxPick) :
     f \in Keys(stored.fonts) /\ i < Len(stored.fonts[f])}

\* The synchronous part of the invocation ran to its end.
LaidOut(run) == run.pc # "threw"

HasEntry(zip, name) == \E e \in zip : e.name = name

EntriesUnder(zip, dir) == {e \in zip : startsWith(e.name, dir)}

\* The entry path the specification gives the pending file of a logo slot.
LogoEntryPath(doc, l, v, file) ==
  LogosDir \o slugify(At(doc.logos, l).name) \o <<"-">> \o toString(v + 1, 10)
    \o <<".">> \o extension(file.name)

AcmeEntry ==
  LogosDir \o <<"a", "c", "m", "e", "-", "1", ".", "p", "n", "g">>

C4_OneEntryPerAsset ==
  \A i \in 1..Len(runs) :
    LaidOut(runs[i]) =>
      /\ Cardinality(EntriesUnder(runs[i].zip, LogosDir))
           = Cardinality(PendingLogos(runs[i].filesIn))
      /\ Cardinality(EntriesUnder(runs[i].zip, GalleryDir))
           = Cardinality(Keys(runs[i].filesIn.gallery))
      /\ Cardinality(EntriesUnder(runs[i].zip, FontsDir))
           = Cardinality(PendingFonts(runs[i].filesIn))

\* C5: an export that fails has created no archive entry and changed no src.
C5_NoPartialExport ==
  \A i \in 1..Len(runs) :
    runs[i].pc = "threw" => runs[i].zip = {} /\ runs[i].data = runs[i].dataIn

\* src without the "/" it may start with.
StripSlash(src) == IF startsWith(src, Slash) THEN Tail(src) ELSE src

\* An entry of the archive under the path src names, holding the file.
Holds(zip, src, file) ==
  \E e \in zip : e.name = StripSlash(src) /\ e.content = file

\* C6: after an export has produced its archive, every logo-variant src and
\* gallery src that an upload set names an entry of the archive, and that entry
\* holds the file uploaded for that item.
C6_ReferencesInSync ==
  \A i \in 1..Len(runs) :
    runs[i].pc = "done" =>
      /\ \A l \in 1..Len(runs[i].data.logos) :
           \A v \in 1..Len(runs[i].data.logos[l].variants) :
             LET variant == runs[i].data.logos[l].variants[v]
             IN  variant.up # undefined => Holds(runs[i].zip, variant.src, variant.up)
      /\ \A g \in 1..Len(runs[i].data.gallery) :
           LET item == runs[i].data.gallery[g]
           IN  item.up # undefined => Holds(runs[i].zip, item.src, item.up)

\* The document with the src of every slot that has a pending asset blanked.
MaskPending(doc, stored) ==
  [doc EXCEPT
     !.logos = [l \in 1..Len(doc.logos) |->
        [doc.logos[l] EXCEPT !.variants = [v \in 1..Len(doc.logos[l].variants) |->
           IF <<l - 1, v - 1>> \in PendingLogos(stored)
           THEN [doc.logos[l].variants[v] EXCEPT !.src = Empty]
           ELSE doc.logos[l].variants[v]]]],
     !.gallery = [g \in 1..Len(doc.gallery) |->
        IF (g - 1) \in Keys(stored.gallery)
        THEN [doc.gallery[g] EXCEPT !.src = Empty]
        ELSE doc.gallery[g]]]

\* C7: export leaves every src that has no pending asset as it was, and changes
\* no field of the document other than the src of slots with a pending asset.
C7_FrameOfExport ==
  \A i \in 1..Len(runs) :
    MaskPending(runs[i].data, runs[i].filesIn)
      = MaskPending(runs[i].dataIn, runs[i].filesIn)

\* An export has rewritten one src and has met an uploaded src without a pending
\* asset, which it has kept.
C7_Witness ==
  \E i \in 1..Len(runs) :
    /\ runs[i].pc = "done"
    /\ runs[i].data # runs[i].dataIn
    /\ \/ \E g \in 1..Len(runs[i].data.gallery) :
            /\ (g - 1) \notin Keys(runs[i].filesIn.gallery)
            /\ runs[i].data.gallery[g].src = runs[i].dataIn.gallery[g].src
       \/ \E l \in 1..Len(runs[i].data.logos) :
            /\ <<l - 1, 0>> \notin PendingLogos(runs[i].filesIn)
            /\ runs[i].data.logos[l].variants[1].src # Empty
            /\ runs[i].data.logos[l].variants[1].src
                 = runs[i].dataIn.logos[l].variants[1].src

\* C8: after onSubmit(data) has run, the data object and the uploadedFiles store
\* have the field values they had when it was called.
C8_InputsNotMutated ==
  \A i \in 1..Len(runs) :
    LaidOut(runs[i]) => runs[i].data = runs[i].dataIn

\* The names of the entries of an archive.
EntryNames(zip) == {e.name : e \in zip}

C10_UrlReleased ==
  \A i \in 1..Len(runs) :
    runs[i].pc \in {"done", "failed"} => runs[i].url # "created"

\* A store without any pending asset.
NoPending(stored) ==
  /\ PendingLogos(stored) = {}
  /\ Keys(stored.gallery) = {}
  /\ PendingFonts(stored) = {}

AssetsDir == <<"a", "s", "s", "e", "t", "s", "/">>

\* C11: once an export has produced its archive the uploadedFiles store holds no
\* pending asset, and an export started after it with the store no upload has
\* touched places no asset entry in its archive.
C11_ConsumedOnce ==
  \A i \in 1..Len(runs) :
    runs[i].pc = "done" =>
      /\ NoPending(uploadedFiles)
      /\ \A j \in 1..Len(runs) :
           (i \in runs[j].completed /\ runs[j].filesIn = runs[i].filesIn) =>
             EntriesUnder(runs[j].zip, AssetsDir) = {}

\* The pending logo files stored under the key of a logo.
PendingOfLogo(stored, l) == {s \in PendingLogos(stored) : s[1] = l}

\* The pending font files stored under the key of a font.
PendingOfFont(stored, f) == {s \in PendingFonts(stored) : s[1] = f}

\* C12: removing a logo, a logo variant, a font or a gallery item discards the
\* pending assets staged for it: when the removed slot had pending files, the
\* store holds fewer pending files of that kind after the removal.
C12_RemovalDiscards ==
  [][/\ \A l \in LogoIndices :
          (RemoveLogo(l) /\ PendingOfLogo(uploadedFiles, l) # {}) =>
            Cardinality(PendingLogos(uploadedFiles'))
              < Cardinality(PendingLogos(uploadedFiles))
     /\ \A l \in LogoIndices, v \in VariantIndices :
          (RemoveVariant(l, v) /\ <<l, v>> \in PendingLogos(uploadedFiles)) =>
            Cardinality(PendingLogos(uploadedFiles'))
              < Cardinality(PendingLogos(uploadedFiles))
     /\ \A f \in FontIndices :
          (RemoveFont(f) /\ PendingOfFont(uploadedFiles, f) # {}) =>
            Cardinality(PendingFonts(uploadedFiles'))
              < Cardinality(PendingFonts(uploadedFiles))
     /\ \A g \in GalleryIndices :
          (RemoveGallery(g) /\ g \in Keys(uploadedFiles.gallery)) =>
            g \notin Keys(uploadedFiles'.gallery)
    ]_vars

\* C13: a document that fails schema validation is never exported: from a state
\* whose form values fail validation (the initial default form among them) no
\* step invokes onSubmit, and every invocation is given a valid document.
C13_InvalidNeverExported ==
  [][Len(runs') > Len(runs) =>
       Valid(form) /\ Valid(runs'[Len(runs')].dataIn)]_vars

\* Export Kit has been pressed on the initial default form: the resolver has
\* reported its fields and nothing has been exported.
C13_Witness ==
  /\ form = defaultValues
  /\ <<"brand", "name">> \in errors
  /\ runs = <<>>

\* A non-empty string of decimal digits.
IsDecimal(s) == Len(s) >= 1 /\ \A i \in 1..Len(s) : IsDigit(s[i])

\* n decimal integers separated by commas (and optional spaces).
IsDecimalList(s, n) ==
  LET parts == split(s, ",")
  IN  Len(parts) = n /\ \A i \in 1..n : IsDecimal(trim(parts[i]))

\* A syntactically valid string of the format.
WellFormed(s, format) ==
  CASE format = "hex"  -> MatchesHex(s)
    [] format = "rgb"  -> IsDecimalList(s, 3)
    [] format = "cmyk" -> IsDecimalList(s, 4)

\* C14: whatever text a codec function is applied to, it returns the empty
\* string or a syntactically valid string of its target format.
C14_EmptyOrWellFormed ==
  codecTrace # <<>> => codecValue = Empty \/ WellFormed(codecValue, codecFormat)

\* What a Convert on colour c may change when the text it reads is parsed or
\* not: nothing of colour c when it is not, and never another colour.
ConvertFrame(c, parsed) ==
  /\ ~parsed => At(form'.colors, c).values = At(form.colors, c).values
  /\ \A d \in 0..(Len(form.colors) - 1) :
       d # c => At(form'.colors, d) = At(form.colors, d)

\* C15: a Convert on a field whose text does not parse in that field's format
\* leaves the other two fields of the colour as they were, and no Convert
\* changes a field of another colour.
C15_UnparsedConvertKeepsOthers ==
  [][\A c \in ColorIndices :
       /\ ConvertHex(c) =>
            ConvertFrame(c, MatchesHex(At(form.colors, c).values.hex))
       /\ ConvertRgb(c) =>
            ConvertFrame(c, MatchesDecimals(At(form.colors, c).values.rgb, 3))
       /\ ConvertCmyk(c) =>
            ConvertFrame(c, MatchesDecimals(At(form.colors, c).values.cmyk, 4))]_vars

\* Every pending asset matches the media kind of its slot.
KindsMatch(stored) ==
  /\ \A s \in PendingLogos(stored) : IsImage(At(stored.logos[s[1]], s[2]))
  /\ \A g \in Keys(stored.gallery) : IsImage(stored.gallery[g])
  /\ \A s \in PendingFonts(stored) : IsFontName(At(stored.fonts[s[1]], s[2]))

\* A drop none of whose items matches the kind of the slot changes nothing.
RejectedDropsChangeNothing ==
  /\ \A l \in LogoIndices, v \in VariantIndices, file \in Files :
       (LogoDrop(l, v, file) /\ ~IsImage(file)) => UNCHANGED <<form, uploadedFiles>>
  /\ \A f \in FontIndices, files \in FileLists :
       (FontDrop(f, files) /\ SelectSeq(files, IsFontName) = <<>>) =>
         UNCHANGED <<form, uploadedFiles>>
  /\ \A files \in FileLists :
       (GalleryDrop(files) /\ SelectSeq(files, IsImage) = <<>>) =>
         UNCHANGED <<form, uploadedFiles>>

\* C16: no upload path puts an item of the wrong media kind into the pending
\* asset store (an image is required for a logo variant and the gallery, a font
\* extension for a font), and a rejected drop leaves store and document alone.
C16_OnlyMatchingKindsStored ==
  [][KindsMatch(uploadedFiles') /\ RejectedDropsChangeNothing]_vars

HexDigitChars ==
  {"0", "1", "2", "3", "4", "5", "6", "7", "8", "9",
   "a", "b", "c", "d", "e", "f", "A", "B", "C", "D", "E", "F"}

\* ^#[0-9A-Fa-f]{6}$
IsHexPattern(s) ==
  Len(s) = 7 /\ s[1] = "#" /\ \A i \in 2..7 : s[i] \in HexDigitChars

\* The field paths of what is wrong with a document: the required arrays that
\* are empty and the hex values that do not match the pattern.
Offending(doc) ==
  {path \in {<<"logos">>, <<"colors">>} : doc[path[1]] = <<>>}
    \cup {path \in {<<"typography", "fonts">>, <<"typography", "examples">>} :
            doc.typography[path[2]] = <<>>}
    \cup {<<"colors", Key(c - 1), "values", "hex">> :
            c \in {k \in 1..Len(doc.colors) : ~IsHexPattern(doc.colors[k].values.hex)}}

\* C17: a document with an empty logos, colors, typography.fonts or
\* typography.examples array, or with a hex value that does not match
\* ^#[0-9A-Fa-f]{6}$, is rejected (onSubmit is not invoked for it), and the
\* errors validation reports contain the field path of every such field.
C17_RejectsNamingField ==
  [][Offending(form) # {} =>
       /\ Len(runs') = Len(runs)
       /\ errors' # errors => Offending(form) \subseteq errors']_vars

\* Validation has rejected a document whose logos, fonts and examples are empty
\* and whose only colour has the hex value "#ZZZZZZ".
C17_Witness ==
  /\ form.logos = <<>>
  /\ Len(form.colors) = 1
  /\ form.colors[1].values.hex = BadHex
  /\ errors = {<<"logos">>, <<"typography", "fonts">>, <<"typography", "examples">>,
               <<"colors", "0", "values", "hex">>}

\* assets/gallery/photo-<g+1>.<extension of the file's name>
GalleryEntryPath(g, file) ==
  GalleryDir \o <<"p", "h", "o", "t", "o", "-">> \o toString(g + 1, 10)
    \o <<".">> \o extension(file.name)

SecondPhotoEntry ==
  GalleryDir \o <<"p", "h", "o", "t", "o", "-", "2", ".", "p", "n", "g">>

FontEntryPath(doc, f, file) ==
  FontsDir \o slugify(At(doc.typography.fonts, f).name) \o <<"-">> \o file.name

AcmeInterEntry ==
  FontsDir \o <<"a", "c", "m", "e", "-", "i", "n", "t", "e", "r", ".", "w", "o", "f", "f">>

C20_DataJsonAfterRewrites ==
  \A i \in 1..Len(runs) :
    LaidOut(runs[i]) =>
      /\ Len(runs[i].dataJson) = 1
      /\ LET entry == runs[i].dataJson[1]
         IN  /\ entry.content = stringify(runs[i].data)
             /\ \A s \in PendingLogos(runs[i].filesIn) :
                  At(At(entry.content.logos, s[1]).variants, s[2]).src
                    = Slash \o LogoEntryPath(runs[i].dataIn, s[1], s[2],
                                             At(runs[i].filesIn.logos[s[1]], s[2]))
             /\ \A g \in Keys(runs[i].filesIn.gallery) :
                  At(entry.content.gallery, g).src
                    = Slash \o GalleryEntryPath(g, runs[i].filesIn.gallery[g])
             /\ entry.name = DataJsonName
             /\ \A k \in 1..Len(entry.name) : entry.name[k] # "/"
      /\ \A e \in runs[i].zip : startsWith(e.name, AssetsDir)

\* An export has produced its archive with a pending logo file and a pending
\* gallery file, and its data.json names both entries.
C20_Witness ==
  \E i \in 1..Len(runs) :
    /\ runs[i].pc = "done"
    /\ <<0, 0>> \in PendingLogos(runs[i].filesIn)
    /\ 0 \in Keys(runs[i].filesIn.gallery)
    /\ Len(runs[i].dataJson) = 1
    /\ runs[i].dataJson[1].content.logos[1].variants[1].src
         # runs[i].dataIn.logos[1].variants[1].src
    /\ runs[i].dataJson[1].content.gallery[1].src # runs[i].dataIn.gallery[1].src

\* a / b (b > 0) rounded to the nearest integer, a half going away from zero.
RoundHalfAway(a, b) ==
  IF a >= 0 THEN (2 * a + b) \div (2 * b) ELSE 0 - ((b - 2 * a) \div (2 * b))

\* The numbers of the original text of the chain.
OrigParts == ParseParts(codecOrig)

\* C22: for an rgb text of three integers in 0..255, rgbToCmyk returns
\* "0, 0, 0, 100" when all are 0 and otherwise "C, M, Y, K" with
\* C = round(100 * (1 - r/255 - k) / (1 - k)), k = 1 - max/255 (that is,
\* 100 * (max - r) / max), M and Y alike, K = round(100 * k), halves rounded
\* away from zero, every component in 0..100.
C22_RgbToCmykFormula ==
  codecTrace = <<"rgbToCmyk">> =>
    LET mx == Max3(OrigParts[1], OrigParts[2], OrigParts[3])
        expected ==
          IF mx = 0 THEN <<0, 0, 0, 100>>
          ELSE <<RoundHalfAway(100 * (mx - OrigParts[1]), mx),
                 RoundHalfAway(100 * (mx - OrigParts[2]), mx),
                 RoundHalfAway(100 * (mx - OrigParts[3]), mx),
                 RoundHalfAway(100 * (255 - mx), 255)>>
    IN  /\ codecValue = JoinDecimal(expected)
        /\ \A i \in 1..4 : ParseParts(codecValue)[i] \in 0..100

\* C23: for a cmyk text of four integers in 0..100, cmykToRgb returns "R, G, B"
\* with R = round(255 * (1 - c/100) * (1 - k/100)), G and B alike, each in
\* 0..255, and "0, 0, 0" whenever K = 100.
C23_CmykToRgbFormula ==
  codecTrace = <<"cmykToRgb">> =>
    LET k == OrigParts[4]
        expected == [i \in 1..3 |->
                       RoundHalfAway(255 * (100 - OrigParts[i]) * (100 - k), 10000)]
    IN  /\ codecValue = JoinDecimal(expected)
        /\ \A i \in 1..3 : ParseParts(codecValue)[i] \in 0..255
        /\ k = 100 => codecValue = <<"0", ",", " ", "0", ",", " ", "0">>

\* A decimal integer, with or without a minus sign.
IsInteger(s) == IsDecimal(s) \/ (Len(s) >= 2 /\ s[1] = "-" /\ IsDecimal(Tail(s)))

\* Exactly three comma-separated integers.
IsIntegerTriple(s) ==
  LET parts == split(s, ",")
  IN  Len(parts) = 3 /\ \A i \in 1..3 : IsInteger(trim(parts[i]))

LowerHexChars ==
  {"0", "1", "2", "3", "4", "5", "6", "7", "8", "9", "a", "b", "c", "d", "e", "f"}

\* C24: rgbToHex returns the empty string unless its input is exactly three
\* comma-separated integers, and otherwise '#' followed by two lower-case hex
\* digits per component, a string of length 7.
C24_RgbToHexShape ==
  codecTrace = <<"rgbToHex">> =>
    IF IsIntegerTriple(codecOrig)
    THEN /\ Len(codecValue) = 7
         /\ codecValue[1] = "#"
         /\ \A i \in 2..7 : codecValue[i] \in LowerHexChars
    ELSE codecValue = Empty

\* C21: once onSubmit has reached its await, no step (an upload, a removal, a
\* field edit, another export, the completion of the export itself) changes
\* the entries of its archive or the content of its data.json: both are what
\* the layout made of the document and the store the invocation was given.
C21_LayoutFixedBeforeAwait ==
  [][\A i \in 1..Len(runs) :
       /\ runs'[i].zip = runs[i].zip
       /\ runs'[i].dataJson = runs[i].dataJson
       /\ runs'[i].zip = Layout(runs[i].dataIn, runs[i].filesIn).zip
       /\ runs'[i].dataJson = Layout(runs[i].dataIn, runs[i].filesIn).dataJson]_vars

\* While the first export is suspended the store has been given another file
\* and a second export has been started on it; the first export is as laid out.
C21_Witness ==
  /\ Len(runs) = 2
  /\ runs[1].pc = "awaiting"
  /\ runs[1].zip # {}
  /\ lateEdits > 0
  /\ uploadedFiles # runs[1].filesIn
  /\ runs[2].filesIn = uploadedFiles
  /\ runs[2].zip # runs[1].zip

\* C25: every key of the uploadedFiles store is a position of the document the
\* form holds: a logo key is below logos.length and the position of each file
\* under it below that logo's variants.length, a font key is below
\* typography.fonts.length, and a gallery key below gallery.length.
C25_StoreKeysInDocument ==
  /\ \A s \in PendingLogos(uploadedFiles) :
       /\ s[1] < Len(form.logos)
       /\ s[2] < Len(At(form.logos, s[1]).variants)
  /\ \A l \in Keys(uploadedFiles.logos) : l < Len(form.logos)
  /\ \A f \in Keys(uploadedFiles.fonts) : f < Len(form.typography.fonts)
  /\ \A g \in Keys(uploadedFiles.gallery) : g < Len(form.gallery)

\* C26: in a behaviour that adds and removes variants of the one logo and
\* uploads files for them, the file the store holds at position v of the logo's
\* list is the file that was uploaded for the variant now at position v.
C26_FileFollowsVariant ==
  scope = "variants" =>
    \A s \in PendingLogos(uploadedFiles) :
      s[2] < Len(At(form.logos, s[1]).variants) =>
        At(At(form.logos, s[1]).variants, s[2]).up
          = At(uploadedFiles.logos[s[1]], s[2])

\* C27: in every state the add and remove controls lead to, logos, colors,
\* typography.fonts, typography.examples and the variants of every logo hold
\* at least one element.
C27_ListsNonEmpty ==
  /\ Len(form.logos) >= 1
  /\ Len(form.colors) >= 1
  /\ Len(form.typography.fonts) >= 1
  /\ Len(form.typography.examples) >= 1
  /\ \A l \in 1..Len(form.logos) : Len(form.logos[l].variants) >= 1

\* A logo that had a file uploaded has been removed (the store still has its
\* key) and one logo is left, for which no remove control is rendered.
C27_Witness ==
  /\ Len(form.logos) = 1
  /\ 1 \in Keys(uploadedFiles.logos)

\* The values of colour c pass the patterns of colorValuesSchema.
HexPasses(doc, c) == MatchesHex(At(doc.colors, c).values.hex)

RgbPasses(doc, c) == MatchesDecimals(At(doc.colors, c).values.rgb, 3)

CmykPasses(doc, c) == MatchesDecimals(At(doc.colors, c).values.cmyk, 4)

\* C28: Convert pressed on a field whose value passes the schema's pattern for
\* that field leaves the other two fields of the colour with values that pass
\* the patterns for those fields.
C28_ConvertKeepsSchema ==
  [][\A c \in ColorIndices :
       /\ (ConvertHex(c) /\ HexPasses(form, c)) =>
            RgbPasses(form', c) /\ CmykPasses(form', c)
       /\ (ConvertRgb(c) /\ RgbPasses(form, c)) =>
            HexPasses(form', c) /\ CmykPasses(form', c)
       /\ (ConvertCmyk(c) /\ CmykPasses(form, c)) =>
            HexPasses(form', c) /\ RgbPasses(form', c)]_vars

====
